---------------------------- MODULE Spec2Model ----------------------------
(***************************************************************************)
(* The driving simulation: the scoring of the PointSystem class            *)
(* (src/components/PointSystem.ts), the road classification of the         *)
(* RealRoadDetector (src/components/Car.ts) and the ColorDetector          *)
(* (src/components/ColorDetector.ts), and the game loop of src/index.ts    *)
(* that drives them, with the constants of CONFIG (src/unnamed/part_001).  *)
(*                                                                         *)
(* Numbers are fixed point.  The source works on IEEE doubles; here        *)
(*   - a distance is a whole number of 1/DistScale metres, so the noise    *)
(*     threshold 0.0001 m of update() is exactly one unit;                 *)
(*   - a multiplier is a whole number of 1/MultScale (tenths), so the      *)
(*     increment 0.1 is exactly one unit;                                  *)
(*   - a speed bonus is a whole number of 1/BonusScale (halves) and a      *)
(*     speed a whole number of 5/BonusScale = 2.5 units, so speed / 5 in   *)
(*     halves is the speed itself;                                         *)
(*   - a deltaTime is a whole number of 1/TimeScale seconds, one unit     *)
(*     being the TIME_STEP of the game loop (1000/60 ms).                  *)
(* A position is a point of one meridian, lat being the arc length from a  *)
(* reference point: the haversine distance of two points of a meridian is  *)
(* the absolute difference of their arc lengths.                           *)
(* The clock Date.now() counts steps of MsPerStep ms.  The texts of the    *)
(* #api-status element are written without their pictographs, [ok] and    *)
(* [warning] standing for the two that initGameSystems writes.             *)
(***************************************************************************)
EXTENDS Integers, Sequences, FiniteSets, TLC

VARIABLES
    points,               \* PointSystem.points
    isOnRoad,             \* PointSystem.isOnRoad
    lastPosition,         \* PointSystem.lastPosition: <<>> is null, <<p>> a position
    pointMultiplier,      \* PointSystem.pointMultiplier, in 1/MultScale
    consecutiveRoadTime,  \* PointSystem.consecutiveRoadTime, in 1/TimeScale s
    totalDistanceOnRoad,  \* PointSystem.totalDistanceOnRoad, in 1/DistScale m
    call,                 \* the last public operation called, with its arguments
    pre,                  \* the score fields as they were when that call began
    apiStatus,            \* the text of the #api-status element
    started,              \* index.ts: pointSystem and colorDetector are set
    apiKey,               \* RealRoadDetector.apiKey: "real", "fallback", or "" before the start
    fallbackMode,         \* ColorDetector.fallbackMode
    cache,                \* RealRoadDetector.cache: cache key -> boolean
    lastCacheTime,        \* RealRoadDetector.lastCacheTime: cache key -> clock
    roadTolerance,        \* RealRoadDetector.roadTolerance, in 1/DistScale m
    now,                  \* Date.now(), in clock steps of MsPerStep ms
    vehicleState,         \* index.ts vehicleState: position and speed
    inFlight,             \* the fetches of isOnRoad not yet settled, oldest first
    frames,               \* the pending requestAnimationFrame(tick) callbacks
    isGamePaused,         \* index.ts isGamePaused
    currentQuestionIndex, \* index.ts currentQuestionIndex
    askTimers,            \* the pending setTimeout(askQuestion, QUESTION_INTERVAL)
    hideTimers,           \* the pending setTimeout(hideQuestion, FEEDBACK_DELAY)
    overlay,              \* #question-overlay: its display, its answer buttons
                          \* and its feedback text
    keysPressed,          \* index.ts keysPressed: the keys whose entry is true
    vehicleSpeed,         \* vehicleState.speed as the physics of tick computes
                          \* it, in 1/SpeedScale m/s
    event                 \* the last step of the road classification, with what it found

pointVars == <<points, isOnRoad, lastPosition, pointMultiplier, consecutiveRoadTime,
               totalDistanceOnRoad, call, pre>>

quizVars == <<isGamePaused, currentQuestionIndex, askTimers, hideTimers, overlay>>

physicsVars == <<keysPressed, vehicleSpeed>>

detectorVars == <<started, apiKey, fallbackMode, cache, lastCacheTime, roadTolerance,
                  now, vehicleState, inFlight, frames, event, quizVars, physicsVars>>

vars == <<pointVars, apiStatus, detectorVars>>

-----------------------------------------------------------------------------
(* Fixed-point scales *)

DistScale == 10000

MultScale == 10

BonusScale == 2

TimeScale == 60

\* a clock step, in ms: the 5000 ms of RealRoadDetector.requestTimeout
MsPerStep == 5000

\* the arc length of 0.00001 degrees of latitude, in 1/DistScale m: 1.1119 m
\* with the R = 6371e3 of calculateDistance
DegreeE5 == 11119

-----------------------------------------------------------------------------
(* CONFIG.POINTS *)

BASE_POINTS_PER_METER == 5

MAX_SPEED_BONUS == (15 * BonusScale) \div 10

MAX_MULTIPLIER == 3 * MultScale

MULTIPLIER_INCREASE_TIME == 8 * TimeScale

OFF_ROAD_PENALTY == 5

PENALTY_MULTIPLIER == 2

\* the literal 0.0001 of update(): "threshold to avoid noise"
MOVE_THRESHOLD == DistScale \div 10000

\* the literal 0.1 added to the multiplier
MULTIPLIER_STEP == MultScale \div 10

-----------------------------------------------------------------------------
(* Bounds of the model *)

\* update() is not explored past this many points
MaxPoints == 500

\* update() is not explored past this on-road distance, in metres
MaxDistance == 150

\* the distance limit of the long on-road streak of SpecStreak, in metres
MaxStreakDistance == 1150

\* with the vehicle parked, the clock is not advanced past this many steps of
\* MsPerStep: an entry cached at the first step expires at the seventh
MaxNow == 7

\* with the vehicle driving, the clock is not advanced past this many steps
MaxDriveNow == 2

\* with the vehicle parked, tick issues no remote query while this many are
\* in flight
MaxInFlight == 2

\* with the vehicle driving, tick issues no remote query while this many are
\* in flight
MaxDriveInFlight == 1

\* initGameSystems starts no tick loop while this many frames are pending
MaxFrames == 2

\* initGameSystems is not called while this many quiz timers are pending
MaxTimers == 2

\* the fallback heuristic is sampled this many grid cells each side of the
\* map centre
MaxCells == 11

\* checkMultiplePoints is given at most this many points, and answered with
\* originalIndex values up to this
MaxBatch == 3

\* with a caller of checkAchievements, update() is not explored past this
\* many points
MaxAchievementPoints == 6000

\* with a caller of checkAchievements, update() is not explored past this
\* on-road distance, in metres
MaxAchievementDistance == 1200

\* tick's update() is not explored past this many points
MaxGamePoints == 300

\* tick's update() is not explored past this on-road distance, in metres
MaxGameDistance == 50

\* arc lengths of the sampled positions: two within the noise threshold of
\* each other and one 50 m away
Lats == {0, 1, 50 * DistScale + 1}

Positions == {[lat |-> n, lng |-> 0] : n \in Lats}

\* 0, 5 and 10 speed units (10 is past the bonus cap of 7.5)
Speeds == {0, 2, 4}

DeltaTimes == {4 * TimeScale, 9 * TimeScale}

\* the samples of the long streak: one 50 m hop, reported with speed 0, so
\* that the streak earns nothing and MaxPoints never stops it
StreakPositions == {[lat |-> n, lng |-> 0] : n \in {0, 50 * DistScale}}

StreakSpeeds == {0}

StreakDeltaTimes == {4 * TimeScale, 9 * TimeScale}

-----------------------------------------------------------------------------
(* Helpers *)

Min(a, b) == IF a < b THEN a ELSE b

Max(a, b) == IF a > b THEN a ELSE b

Abs(a) == IF a < 0 THEN -a ELSE a

null == <<>>

\* PointSystem.calculateDistance, for two points of one meridian
calculateDistance(pos1, pos2) == Abs(pos2.lat - pos1.lat)

carMoved_inclusive(distance) == distance >= MOVE_THRESHOLD

\* "if (distance > 0.0001)"
carMoved(distance) == distance > MOVE_THRESHOLD

speedBonus_uncapped(speed) == speed

\* Math.min(speed / 5, MAX_SPEED_BONUS), in 1/BonusScale
speedBonus(speed) == Min(speed, MAX_SPEED_BONUS)

\* Math.floor(distance * BASE_POINTS_PER_METER * pointMultiplier * speedBonus)
pointsEarned(distance, multiplier, speed) ==
    (distance * BASE_POINTS_PER_METER * multiplier * speedBonus(speed))
        \div (DistScale * MultScale * BonusScale)

penaltyPoints_multiplied(distance) ==
    (distance * OFF_ROAD_PENALTY * PENALTY_MULTIPLIER) \div DistScale

\* Math.floor(distance * OFF_ROAD_PENALTY)
penaltyPoints(distance) == (distance * OFF_ROAD_PENALTY) \div DistScale

pointsAfterPenalty_unclamped(pts, distance) == pts - penaltyPoints(distance)

pointsAfterPenalty_added(pts, distance) == Max(0, pts + penaltyPoints(distance))

\* Math.max(0, this.points - Math.floor(penaltyPoints))
pointsAfterPenalty(pts, distance) == Max(0, pts - penaltyPoints(distance))

streakComplete_inclusive(roadTime) == roadTime >= MULTIPLIER_INCREASE_TIME

\* "if (this.consecutiveRoadTime > MULTIPLIER_INCREASE_TIME)"
streakComplete(roadTime) == roadTime > MULTIPLIER_INCREASE_TIME

increasedMultiplier_uncapped(multiplier) == multiplier + MULTIPLIER_STEP

\* Math.min(this.pointMultiplier + 0.1, MAX_MULTIPLIER)
increasedMultiplier(multiplier) == Min(multiplier + MULTIPLIER_STEP, MAX_MULTIPLIER)

\* the fields of the PointSystem as a call finds them, and the operation
\* called before it
Fields ==
    [points |-> points, pointMultiplier |-> pointMultiplier,
     consecutiveRoadTime |-> consecutiveRoadTime,
     totalDistanceOnRoad |-> totalDistanceOnRoad, lastPosition |-> lastPosition,
     isOnRoad |-> isOnRoad, op |-> call.op]

onRoadBranch_resetsOnIncrease(distance, speed, deltaTime) ==
    LET roadTime == consecutiveRoadTime + deltaTime
        increased == streakComplete(roadTime)
                         /\ increasedMultiplier(pointMultiplier) # pointMultiplier
    IN  [points |-> points + pointsEarned(distance, pointMultiplier, speed),
         totalDistanceOnRoad |-> totalDistanceOnRoad + distance,
         pointMultiplier |-> IF streakComplete(roadTime)
                             THEN increasedMultiplier(pointMultiplier)
                             ELSE pointMultiplier,
         consecutiveRoadTime |-> IF increased THEN 0 ELSE roadTime]

\* the on-road branch of update(), lines 110-125
onRoadBranch(distance, speed, deltaTime) ==
    LET roadTime == consecutiveRoadTime + deltaTime
    IN  [points |-> points + pointsEarned(distance, pointMultiplier, speed),
         totalDistanceOnRoad |-> totalDistanceOnRoad + distance,
         pointMultiplier |-> IF streakComplete(roadTime)
                             THEN increasedMultiplier(pointMultiplier)
                             ELSE pointMultiplier,
         consecutiveRoadTime |-> IF streakComplete(roadTime) THEN 0 ELSE roadTime]

offRoadBranch_keepsStreak(distance) ==
    [points |-> pointsAfterPenalty(points, distance),
     totalDistanceOnRoad |-> totalDistanceOnRoad,
     pointMultiplier |-> pointMultiplier,
     consecutiveRoadTime |-> consecutiveRoadTime]

offRoadBranch_countsDistance(distance) ==
    [points |-> pointsAfterPenalty(points, distance),
     totalDistanceOnRoad |-> totalDistanceOnRoad + distance,
     pointMultiplier |-> 1 * MultScale,
     consecutiveRoadTime |-> 0]

\* the off-road branch of update(), lines 126-134
offRoadBranch(distance) ==
    [points |-> pointsAfterPenalty(points, distance),
     totalDistanceOnRoad |-> totalDistanceOnRoad,
     pointMultiplier |-> 1 * MultScale,
     consecutiveRoadTime |-> 0]

\* the branch update() takes when it skips scoring
noScoring ==
    [points |-> points, totalDistanceOnRoad |-> totalDistanceOnRoad,
     pointMultiplier |-> pointMultiplier,
     consecutiveRoadTime |-> consecutiveRoadTime]

scored_branchesSwapped(carPosition, onRoad, speed, deltaTime) ==
    IF lastPosition # null
    THEN LET distance == calculateDistance(lastPosition[1], carPosition)
         IN  IF carMoved(distance)
             THEN IF onRoad
                  THEN offRoadBranch(distance)
                  ELSE onRoadBranch(distance, speed, deltaTime)
             ELSE noScoring
    ELSE noScoring

\* the score fields update() leaves, lines 106-136
scored(carPosition, onRoad, speed, deltaTime) ==
    IF lastPosition # null
    THEN LET distance == calculateDistance(lastPosition[1], carPosition)
         IN  IF carMoved(distance)
             THEN IF onRoad
                  THEN onRoadBranch(distance, speed, deltaTime)
                  ELSE offRoadBranch(distance)
             ELSE noScoring
    ELSE noScoring

-----------------------------------------------------------------------------
(* CONFIG.ROADS_API and the fields of RealRoadDetector *)

\* CACHE_TIMEOUT: 30000 ms, in clock steps
CACHE_TIMEOUT == 30000 \div MsPerStep

\* RealRoadDetector.requestTimeout: 5000 ms, in clock steps
requestTimeout == 5000 \div MsPerStep

\* ROAD_TOLERANCE: 10 m
ROAD_TOLERANCE == 10 * DistScale

\* MAX_RETRIES: read by no code
MAX_RETRIES == 3

\* the deltaTime tick passes to update(): TIME_STEP / 1000 seconds
TickDelta == TimeScale \div 60

\* a Map with no entry
emptyMap == [k \in {} |-> FALSE]

\* Map.set(k, v)
mapSet(m, k, v) == [x \in DOMAIN m \cup {k} |-> IF x = k THEN v ELSE m[x]]

\* Number.toFixed(5) of a coordinate, as a count of 0.00001 degrees: the
\* nearest one, a half rounding away from zero
toFixed5(x) ==
    IF x >= 0 THEN (2 * x + DegreeE5) \div (2 * DegreeE5)
    ELSE -((2 * (-x) + DegreeE5) \div (2 * DegreeE5))

\* the cacheKey of isOnRoad(lat, lng)
cacheKey(lat, lng) == <<toFixed5(lat), toFixed5(lng)>>

isCacheValid_inclusive(key) ==
    /\ key \in DOMAIN lastCacheTime
    /\ lastCacheTime[key] # 0
    /\ now - lastCacheTime[key] <= CACHE_TIMEOUT

isCacheValid_alwaysMiss(key) == FALSE

\* RealRoadDetector.isCacheValid(key)
isCacheValid(key) ==
    /\ key \in DOMAIN lastCacheTime
    /\ lastCacheTime[key] # 0
    /\ now - lastCacheTime[key] < CACHE_TIMEOUT

\* cache.get(cacheKey) || false
cachedValue(key) == IF key \in DOMAIN cache THEN cache[key] ELSE FALSE

\* the age of the entry of a key, -1 when it has none
entryAge(key) == IF key \in DOMAIN lastCacheTime THEN now - lastCacheTime[key] ELSE -1

\* NaN, what arithmetic makes of a coordinate that is undefined: equal to no
\* number, and the result of every operation it enters
NaN == -1000000000

\* the remainder of JavaScript's %: it has the sign of the dividend
jsRem(a, n) ==
    IF a = NaN THEN NaN
    ELSE IF a >= 0 THEN a % n ELSE -((-a) % n)

\* Math.floor((x - c) * 10000) % 10 of fallbackRoadDetection
gridCell(x, c) ==
    IF x = NaN THEN NaN ELSE jsRem((x - c) \div (10 * DegreeE5), 10)

\* map.getCenter(): tick moves the camera to the vehicle before it classifies
mapCenter == [lat |-> vehicleState.lat, lng |-> vehicleState.lng]

\* ColorDetector.fallbackRoadDetection(lat, lng)
fallbackRoadDetection(lat, lng) ==
    LET latGrid == gridCell(lat, mapCenter.lat)
        lngGrid == gridCell(lng, mapCenter.lng)
        isMainRoad == latGrid \in {0, 5} \/ lngGrid \in {0, 5}
        isSmallRoad == jsRem(latGrid, 2) = 0 \/ jsRem(lngGrid, 2) = 0
    IN  isMainRoad \/ isSmallRoad

\* no classification step was taken yet
noEvent == [type |-> "none"]

\* the positions of a driving vehicle: two that round to the same cache key
\* and one 50 m away, which rounds to another
GamePositions == Positions

\* the position of a parked vehicle: where Init puts it
ParkedPositions == {[lat |-> 0, lng |-> 0]}

\* vehicleState.speed, in units of 2.5
GameSpeeds == {2}

\* what becomes of a remote query: a 2xx body whose first snapped point is
\* at a distance from the queried point (at the tolerance, or one unit past
\* it), a 2xx body with no snapped point, a non-2xx status, the abort of
\* the 5 s timer, a transport error, a body that does not parse
SnapDistances == {ROAD_TOLERANCE, ROAD_TOLERANCE + 1}

SuccessOutcomes ==
    {[kind |-> "snapped", distance |-> d] : d \in SnapDistances}
        \cup {[kind |-> "empty", distance |-> 0]}

FailureKinds == {"non2xx", "abort", "error", "badjson"}

FailureOutcomes == {[kind |-> k, distance |-> 0] : k \in FailureKinds}

Outcomes == SuccessOutcomes \cup FailureOutcomes

roadDetectorResult_strict(outcome) ==
    IF outcome.kind = "snapped"
    THEN [rejected |-> FALSE, value |-> outcome.distance < roadTolerance, store |-> TRUE]
    ELSE IF outcome.kind = "empty"
    THEN [rejected |-> FALSE, value |-> FALSE, store |-> TRUE]
    ELSE [rejected |-> FALSE, value |-> FALSE, store |-> FALSE]

roadDetectorResult_emptyFails(outcome) ==
    IF outcome.kind = "snapped"
    THEN [rejected |-> FALSE, value |-> outcome.distance <= roadTolerance, store |-> TRUE]
    ELSE [rejected |-> FALSE, value |-> FALSE, store |-> FALSE]

roadDetectorResult_noCatch(outcome) ==
    IF outcome.kind = "snapped"
    THEN [rejected |-> FALSE, value |-> outcome.distance <= roadTolerance, store |-> TRUE]
    ELSE IF outcome.kind = "empty"
    THEN [rejected |-> FALSE, value |-> FALSE, store |-> TRUE]
    ELSE IF outcome.kind = "non2xx"
    THEN [rejected |-> FALSE, value |-> FALSE, store |-> FALSE]
    ELSE [rejected |-> TRUE, value |-> FALSE, store |-> FALSE]

\* RealRoadDetector.isOnRoad from the answer of fetch on: how its promise
\* settles, and whether the value is written to the cache
roadDetectorResult(outcome) ==
    IF outcome.kind = "snapped"
    THEN [rejected |-> FALSE, value |-> outcome.distance <= roadTolerance, store |-> TRUE]
    ELSE IF outcome.kind = "empty"
    THEN [rejected |-> FALSE, value |-> FALSE, store |-> TRUE]
    ELSE [rejected |-> FALSE, value |-> FALSE, store |-> FALSE]

colorDetectorResult_clearsFlag(lat, lng, r) ==
    IF r.rejected
    THEN [rejected |-> FALSE, value |-> fallbackRoadDetection(lat, lng),
          fallbackMode |-> TRUE]
    ELSE [rejected |-> FALSE, value |-> r.value, fallbackMode |-> FALSE]

\* ColorDetector.isOnRoad(lat, lng), r being how the promise of
\* roadDetector.isOnRoad settled
colorDetectorResult(lat, lng, r) ==
    IF r.rejected
    THEN [rejected |-> FALSE, value |-> fallbackRoadDetection(lat, lng),
          fallbackMode |-> TRUE]
    ELSE [rejected |-> FALSE, value |-> r.value, fallbackMode |-> fallbackMode]

\* the status tick's then-callback pushes after update()
statusAfter(inFallback) == IF inFallback THEN "Fallback Mode" ELSE "Real Roads API"

\* the sequence without its i-th element
removeAt(seq, i) == SubSeq(seq, 1, i - 1) \o SubSeq(seq, i + 1, Len(seq))

\* the #question-overlay before the first question: not displayed, no
\* answer button, no feedback
noOverlay == [display |-> "none", buttons |-> "none", feedback |-> ""]

-----------------------------------------------------------------------------
(* Operations *)

Init ==
    /\ points = 0
    /\ isOnRoad = FALSE
    /\ lastPosition = null
    /\ pointMultiplier = 1 * MultScale
    /\ consecutiveRoadTime = 0
    /\ totalDistanceOnRoad = 0
    /\ call = [op |-> "new"]
    /\ pre = [points |-> 0, pointMultiplier |-> 1 * MultScale,
              consecutiveRoadTime |-> 0, totalDistanceOnRoad |-> 0,
              lastPosition |-> null, isOnRoad |-> FALSE, op |-> "new"]
    /\ apiStatus = "Loading..."
    /\ started = FALSE
    /\ apiKey = ""
    /\ fallbackMode = FALSE
    /\ cache = emptyMap
    /\ lastCacheTime = emptyMap
    /\ roadTolerance = ROAD_TOLERANCE
    /\ now = 1
    /\ vehicleState = [lat |-> 0, lng |-> 0, speed |-> 0]
    /\ inFlight = <<>>
    /\ frames = 0
    /\ isGamePaused = FALSE
    /\ currentQuestionIndex = -1
    /\ askTimers = 0
    /\ hideTimers = 0
    /\ overlay = noOverlay
    /\ keysPressed = {}
    /\ vehicleSpeed = 0
    /\ event = noEvent

\* what PointSystem.update(carPosition, isOnRoad, speed, deltaTime) does to
\* the fields of the PointSystem; maxPoints and maxDistance bound the
\* exploration
updateFields(carPosition, onRoad, speed, deltaTime, maxPoints, maxDistance) ==
    LET after == scored(carPosition, onRoad, speed, deltaTime)
    IN  /\ after.points <= maxPoints
        /\ after.totalDistanceOnRoad <= maxDistance * DistScale
        /\ points' = after.points
        /\ totalDistanceOnRoad' = after.totalDistanceOnRoad
        /\ pointMultiplier' = after.pointMultiplier
        /\ consecutiveRoadTime' = after.consecutiveRoadTime
        /\ lastPosition' = <<carPosition>>
        /\ isOnRoad' = onRoad
        /\ call' = [op |-> "update", carPosition |-> carPosition, isOnRoad |-> onRoad,
                    speed |-> speed, deltaTime |-> deltaTime]
        /\ pre' = Fields

\* PointSystem.update, with the updateUI() that ends it: updateUI writes
\* "Checking..." to #api-status
update(carPosition, onRoad, speed, deltaTime, maxPoints, maxDistance) ==
    /\ updateFields(carPosition, onRoad, speed, deltaTime, maxPoints, maxDistance)
    /\ apiStatus' = "Checking..."
    /\ UNCHANGED detectorVars

resetFields_keepsLastPosition ==
    /\ points' = 0
    /\ pointMultiplier' = 1 * MultScale
    /\ consecutiveRoadTime' = 0
    /\ totalDistanceOnRoad' = 0
    /\ UNCHANGED <<isOnRoad, lastPosition>>
    /\ call' = [op |-> "reset"]
    /\ pre' = Fields

resetFields_keepsDistance ==
    /\ points' = 0
    /\ pointMultiplier' = 1 * MultScale
    /\ lastPosition' = null
    /\ consecutiveRoadTime' = 0
    /\ UNCHANGED <<isOnRoad, totalDistanceOnRoad>>
    /\ call' = [op |-> "reset"]
    /\ pre' = Fields

\* what PointSystem.reset() does to the fields of the PointSystem
resetFields ==
    /\ points' = 0
    /\ pointMultiplier' = 1 * MultScale
    /\ lastPosition' = null
    /\ consecutiveRoadTime' = 0
    /\ totalDistanceOnRoad' = 0
    /\ UNCHANGED isOnRoad
    /\ call' = [op |-> "reset"]
    /\ pre' = Fields

\* PointSystem.reset(), with the updateUI() that ends it
reset ==
    /\ resetFields
    /\ apiStatus' = "Checking..."
    /\ UNCHANGED detectorVars

\* the labels of checkAchievements, without their pictographs
RoadWarrior == "Road Warrior - 1000 points!"

MasterDriver == "Master Driver - 5000 points!"

DistanceMaster == "Distance Master - 1km on roads!"

achievements_noUpperBound(pts, distance) ==
    (IF pts >= 1000 THEN <<RoadWarrior>>
     ELSE IF pts >= 5000 THEN <<MasterDriver>>
     ELSE <<>>)
        \o (IF distance >= 1000 * DistScale THEN <<DistanceMaster>> ELSE <<>>)

\* the array checkAchievements() returns for this.points and
\* this.totalDistanceOnRoad
achievements(pts, distance) ==
    (IF pts >= 1000 /\ pts < 2000 THEN <<RoadWarrior>>
     ELSE IF pts >= 5000 THEN <<MasterDriver>>
     ELSE <<>>)
        \o (IF distance >= 1000 * DistScale THEN <<DistanceMaster>> ELSE <<>>)

\* PointSystem.checkAchievements(): it returns the array and writes nothing
checkAchievements ==
    /\ call' = [op |-> "checkAchievements",
                result |-> achievements(points, totalDistanceOnRoad)]
    /\ pre' = Fields
    /\ UNCHANGED <<points, isOnRoad, lastPosition, pointMultiplier,
                   consecutiveRoadTime, totalDistanceOnRoad, apiStatus,
                   detectorVars>>

Next ==
    \/ \E carPosition \in Positions, onRoad \in BOOLEAN,
          speed \in Speeds, deltaTime \in DeltaTimes :
            update(carPosition, onRoad, speed, deltaTime, MaxPoints, MaxDistance)
    \/ reset

Spec == Init /\ [][Next]_vars

\* a long on-road streak: the same operations on fewer samples, further
NextStreak ==
    \/ \E carPosition \in StreakPositions, onRoad \in BOOLEAN,
          speed \in StreakSpeeds, deltaTime \in StreakDeltaTimes :
            update(carPosition, onRoad, speed, deltaTime,
                   MaxPoints, MaxStreakDistance)
    \/ reset

SpecStreak == Init /\ [][NextStreak]_vars

\* arc lengths of the samples of the achievements: hops of 200 m, which at
\* multiplier 1.0 earn 1500 points on the road at 10 m/s and cost 1000
\* points off it, so that the scores 1000, 2000 and 5000 and the distance
\* 1000 m are met exactly
AchievementPositions == {[lat |-> n * DistScale, lng |-> 0] : n \in {0, 200}}

\* 0 m/s, which earns nothing, and 10 m/s
AchievementSpeeds == {0, 4}

\* the PointSystem over long distances, with a caller of checkAchievements
NextAchievements ==
    \/ \E carPosition \in AchievementPositions, onRoad \in BOOLEAN,
          speed \in AchievementSpeeds :
            update(carPosition, onRoad, speed, TickDelta,
                   MaxAchievementPoints, MaxAchievementDistance)
    \/ reset
    \/ checkAchievements

SpecAchievements == Init /\ [][NextAchievements]_vars

-----------------------------------------------------------------------------
(* The game: index.ts drives the ColorDetector and the PointSystem *)

\* The fields overtaken, resetSince and tracked of a fetch in flight are read
\* by no operation: they are kept for the properties.  resetSince is 0 when
\* a tick has run since the last reset (or there was none), and else 1 + the
\* number of fetches settled since that reset.  At most one fetch in flight
\* is tracked: one sent while none was.

\* the fetches in flight after a reset
markedReset(requests) ==
    [j \in DOMAIN requests |-> [requests[j] EXCEPT !.resetSince = 1]]

\* the fetches in flight after a tick
markedTick(requests) ==
    [j \in DOMAIN requests |-> [requests[j] EXCEPT !.resetSince = 0]]

\* the fetches in flight after the i-th is settled: those older than it have
\* been overtaken
settled(requests, i) ==
    LET rest == removeAt(requests, i)
    IN  [j \in DOMAIN rest |->
            [rest[j] EXCEPT !.overtaken = @ \/ j < i,
                            !.resetSince = IF @ = 0 THEN 0 ELSE @ + 1]]

\* pointSystem.reset() in the running game: the fetches in flight stay
gameReset ==
    /\ resetFields
    /\ apiStatus' = "Checking..."
    /\ inFlight' = markedReset(inFlight)
    /\ UNCHANGED <<started, apiKey, fallbackMode, cache, lastCacheTime,
                   roadTolerance, now, vehicleState, event>>

\* initGameSystems(): the first call builds the ColorDetector and the
\* PointSystem, with the key of the configuration when validateApiKey()
\* accepts it and with the key 'fallback' when not; a later call resets.
\* Every call sets the timer of a question in setupQuestionSystem() and
\* ends with requestAnimationFrame(tick) unless the game is paused
initGameSystems(hasKey) ==
    /\ frames < MaxFrames
    /\ askTimers + hideTimers < MaxTimers
    /\ askTimers' = askTimers + 1
    /\ frames' = IF isGamePaused THEN frames ELSE frames + 1
    /\ UNCHANGED <<isGamePaused, currentQuestionIndex, hideTimers, overlay,
                   physicsVars>>
    /\ IF ~started
       THEN /\ started' = TRUE
            /\ apiKey' = IF hasKey THEN "real" ELSE "fallback"
            /\ apiStatus' = IF hasKey THEN "[ok] Real Roads API"
                                      ELSE "[warning] Fallback Mode"
            /\ UNCHANGED <<pointVars, fallbackMode, cache, lastCacheTime,
                           roadTolerance, now, vehicleState, inFlight, event>>
       ELSE gameReset

\* a click on the "Reset Points" button of the PointSystem
resetButton == started /\ gameReset /\ UNCHANGED <<frames, quizVars, physicsVars>>

\* time passes; a fetch is settled by the time its 5 s timer has fired
advanceClock(maxNow) ==
    /\ started
    /\ now < maxNow
    /\ \A i \in 1..Len(inFlight) : now - inFlight[i].issued < requestTimeout
    /\ now' = now + 1
    /\ UNCHANGED <<pointVars, apiStatus, started, apiKey, fallbackMode, cache,
                   lastCacheTime, roadTolerance, vehicleState, inFlight, frames, quizVars,
                   physicsVars,
                   event>>

\* the callbacks tick chains to colorDetector.isOnRoad, c being how that
\* promise settled and vehicle the vehicleState they read when they run
tickCallback(c, vehicle) ==
    LET carPosition == [lat |-> vehicle.lat, lng |-> vehicle.lng]
    IN  IF c.rejected
        THEN /\ updateFields(carPosition, FALSE, vehicle.speed, TickDelta,
                             MaxGamePoints, MaxGameDistance)
             /\ apiStatus' = "Checking..."
        ELSE /\ updateFields(carPosition, c.value, vehicle.speed, TickDelta,
                             MaxGamePoints, MaxGameDistance)
             /\ apiStatus' = statusAfter(c.fallbackMode)

\* the speed unit of the physics: 1/SpeedScale m/s, so that the friction of
\* one tick, COASTING_RATE * TIME_STEP / 1000, is one unit
SpeedScale == 60

ACCELERATION_RATE == 2

DECELERATION_RATE == 4

COASTING_RATE == 1

MAX_SPEED == 25

\* Math.sign
Sign(a) == IF a > 0 THEN 1 ELSE IF a < 0 THEN -1 ELSE 0

\* userAcceleration of tick: ACCELERATION_RATE with any of the four
\* movement keys down, then -DECELERATION_RATE with a braking key down
userAcceleration(keys) ==
    LET isMovingKey == keys \cap {"arrowup", "w", "arrowdown", "s"} # {}
        moving == IF isMovingKey THEN ACCELERATION_RATE ELSE 0
    IN  IF keys \cap {"arrowdown", "s"} # {} THEN -DECELERATION_RATE ELSE moving

\* (userAcceleration + friction) * timeSeconds, in speed units
speedChange(speed, keys) ==
    LET acceleration == userAcceleration(keys)
        friction == IF acceleration = 0 /\ Abs(speed) * 100 > SpeedScale
                    THEN -Sign(speed) * COASTING_RATE
                    ELSE 0
    IN  ((acceleration + friction) * TickDelta * SpeedScale) \div TimeScale

speedAfter_noFloor(speed, keys) ==
    LET moved == speed + speedChange(speed, keys)
        rested == IF Abs(moved) * 10 < SpeedScale /\ userAcceleration(keys) = 0
                  THEN 0 ELSE moved
    IN  Min(rested, MAX_SPEED * SpeedScale)

\* vehicleState.speed after the physics of one tick: the change, the stop
\* below 0.1 m/s with no key down, the clamp to [0, MAX_SPEED]
speedAfter(speed, keys) ==
    LET moved == speed + speedChange(speed, keys)
        rested == IF Abs(moved) * 10 < SpeedScale /\ userAcceleration(keys) = 0
                  THEN 0 ELSE moved
    IN  Min(Max(rested, 0), MAX_SPEED * SpeedScale)

\* a speed of the physics in the unit of vehicleState.speed, 2.5 m/s
speedUnits(speed) == (2 * speed) \div (5 * SpeedScale)

\* the keydown listener of setupInputHandling
keydown(key) ==
    /\ started
    /\ keysPressed' = keysPressed \cup {key}
    /\ UNCHANGED <<pointVars, apiStatus, started, apiKey, fallbackMode, cache,
                   lastCacheTime, roadTolerance, now, vehicleState, inFlight,
                   frames, quizVars, vehicleSpeed, event>>

\* the keyup listener of setupInputHandling
keyup(key) ==
    /\ started
    /\ keysPressed' = keysPressed \ {key}
    /\ UNCHANGED <<pointVars, apiStatus, started, apiKey, fallbackMode, cache,
                   lastCacheTime, roadTolerance, now, vehicleState, inFlight,
                   frames, quizVars, vehicleSpeed, event>>

tickReturns_never == FALSE

\* "if (isGamePaused) return": tick leaves before it does anything
tickReturns == isGamePaused

framesAfterTick_waits(n) == n - 1

\* the pending frames after a tick that found n: its own is gone, and its
\* last statement, requestAnimationFrame(tick), adds one
framesAfterTick(n) == n - 1 + 1

\* tick(), the callback of a pending frame.  With the game paused it
\* returns at once.  With the game running the physics computes the speed
\* from the keys that are down and moves the vehicle, to pos at speed (the
\* speed in the unit of the scoring); then the road under it is classified
\* (maxInFlight bounds the exploration).  With a valid cache entry the
\* classification and the callbacks complete before anything else runs;
\* without one the fetch is sent and the callbacks wait for it.  Either way
\* the next frame is requested
tick(pos, speed, maxInFlight) ==
    LET key == cacheKey(pos.lat, pos.lng)
        found == [key |-> key, age |-> entryAge(key), stored |-> cachedValue(key),
                  sameKeyInFlight |-> \E j \in 1..Len(inFlight) :
                                          inFlight[j].key = key,
                  clearedAge |-> IF event.type = "clear" /\ key \in DOMAIN event.dropped
                                 THEN now - event.dropped[key] ELSE -1]
    IN  /\ started
        /\ frames >= 1
        /\ UNCHANGED <<quizVars, keysPressed>>
        /\ IF tickReturns
           THEN /\ frames' = frames - 1
                /\ UNCHANGED <<pointVars, apiStatus, started, apiKey, fallbackMode,
                               cache, lastCacheTime, roadTolerance, now,
                               vehicleState, inFlight, vehicleSpeed, event>>
           ELSE /\ frames' = framesAfterTick(frames)
                /\ vehicleSpeed' = speedAfter(vehicleSpeed, keysPressed)
                /\ vehicleState' = [lat |-> pos.lat, lng |-> pos.lng, speed |-> speed]
                /\ IF isCacheValid(key)
                   THEN LET r == [rejected |-> FALSE, value |-> cachedValue(key),
                                  store |-> FALSE]
                            c == colorDetectorResult(pos.lat, pos.lng, r)
                        IN  /\ fallbackMode' = c.fallbackMode
                            /\ tickCallback(c, [lat |-> pos.lat, lng |-> pos.lng,
                                                speed |-> speed])
                            /\ inFlight' = markedTick(inFlight)
                            /\ UNCHANGED <<started, apiKey, cache, lastCacheTime,
                                           roadTolerance, now>>
                            /\ event' = [type |-> "hit", found |-> found, result |-> c.value,
                                         detectorRejected |-> r.rejected,
                                         branch |-> IF c.rejected THEN "catch" ELSE "then",
                                         cacheKept |-> cache' = cache
                                                       /\ lastCacheTime' = lastCacheTime,
                                         queried |-> Len(inFlight') # Len(inFlight)]
                   ELSE /\ Len(inFlight) < maxInFlight
                        /\ inFlight' = Append(markedTick(inFlight),
                                              [key |-> key, lat |-> pos.lat, lng |-> pos.lng,
                                               issued |-> now, attempts |-> 1,
                                               overtaken |-> FALSE, resetSince |-> 0,
                                               tracked |-> \A j \in 1..Len(inFlight) :
                                                               ~inFlight[j].tracked])
                        /\ event' = [type |-> "issue", found |-> found,
                                     queried |-> Len(inFlight') # Len(inFlight)]
                        /\ UNCHANGED <<pointVars, apiStatus, started, apiKey, fallbackMode,
                                       cache, lastCacheTime, roadTolerance, now>>

callbackVehicle_atIssue(q) == [lat |-> q.lat, lng |-> q.lng, speed |-> vehicleState.speed]

\* the vehicleState the callbacks of the tick that sent q read when they
\* run: the one of that moment
callbackVehicle(q) == vehicleState

respond_dropsStale(i, outcome) ==
    /\ i \in 1..Len(inFlight)
    /\ outcome \in SuccessOutcomes => apiKey = "real"
    /\ outcome.kind = "abort" => now - inFlight[i].issued >= requestTimeout
    /\ LET q == inFlight[i]
           r == roadDetectorResult(outcome)
           c == colorDetectorResult(q.lat, q.lng, r)
       IN  /\ cache' = IF r.store THEN mapSet(cache, q.key, r.value) ELSE cache
           /\ lastCacheTime' = IF r.store THEN mapSet(lastCacheTime, q.key, now)
                                          ELSE lastCacheTime
           /\ fallbackMode' = c.fallbackMode
           /\ inFlight' = settled(inFlight, i)
           /\ IF q.overtaken
              THEN UNCHANGED <<pointVars, apiStatus>>
              ELSE tickCallback(c, callbackVehicle(q))
           /\ event' = [type |-> "response", key |-> q.key, outcome |-> outcome,
                        waited |-> now - q.issued, result |-> c.value,
                        simulated |-> fallbackRoadDetection(q.lat, q.lng),
                        staleStored |-> cachedValue(q.key),
                        detectorRejected |-> r.rejected,
                        branch |-> IF c.rejected THEN "catch" ELSE "then",
                        tolerance |-> roadTolerance,
                        attempts |-> q.attempts,
                        overtaken |-> q.overtaken,
                        tracked |-> q.tracked,
                        sinceReset |-> q.resetSince,
                        applied |-> call'.op = "update" /\ pre' = Fields
                                    /\ call'.isOnRoad = c.value,
                        entry |-> IF q.key \in DOMAIN cache'
                                  THEN <<cache'[q.key], now - lastCacheTime'[q.key]>>
                                  ELSE <<>>,
                        flagKept |-> fallbackMode' = fallbackMode]
           /\ UNCHANGED <<started, apiKey, roadTolerance, now, vehicleState, frames, quizVars,
                   physicsVars>>

\* the i-th fetch in flight is settled with an outcome: isOnRoad of the
\* RealRoadDetector resumes, then isOnRoad of the ColorDetector, then the
\* callbacks of tick.  A request with the key 'fallback' is not answered
\* with a 2xx; the timer aborts a fetch no sooner than 5 s after it was sent
respond(i, outcome) ==
    /\ i \in 1..Len(inFlight)
    /\ outcome \in SuccessOutcomes => apiKey = "real"
    /\ outcome.kind = "abort" => now - inFlight[i].issued >= requestTimeout
    /\ LET q == inFlight[i]
           r == roadDetectorResult(outcome)
           c == colorDetectorResult(q.lat, q.lng, r)
       IN  /\ cache' = IF r.store THEN mapSet(cache, q.key, r.value) ELSE cache
           /\ lastCacheTime' = IF r.store THEN mapSet(lastCacheTime, q.key, now)
                                          ELSE lastCacheTime
           /\ fallbackMode' = c.fallbackMode
           /\ inFlight' = settled(inFlight, i)
           /\ tickCallback(c, callbackVehicle(q))
           /\ event' = [type |-> "response", key |-> q.key, outcome |-> outcome,
                        waited |-> now - q.issued, result |-> c.value,
                        simulated |-> fallbackRoadDetection(q.lat, q.lng),
                        staleStored |-> cachedValue(q.key),
                        detectorRejected |-> r.rejected,
                        branch |-> IF c.rejected THEN "catch" ELSE "then",
                        tolerance |-> roadTolerance,
                        attempts |-> q.attempts,
                        overtaken |-> q.overtaken,
                        tracked |-> q.tracked,
                        sinceReset |-> q.resetSince,
                        applied |-> call'.op = "update" /\ pre' = Fields
                                    /\ call'.isOnRoad = c.value,
                        entry |-> IF q.key \in DOMAIN cache'
                                  THEN <<cache'[q.key], now - lastCacheTime'[q.key]>>
                                  ELSE <<>>,
                        flagKept |-> fallbackMode' = fallbackMode]
           /\ UNCHANGED <<started, apiKey, roadTolerance, now, vehicleState, frames, quizVars,
                   physicsVars>>

\* the game with the vehicle driving, for a short time after one login
NextGame ==
    \/ \E hasKey \in BOOLEAN : ~started /\ initGameSystems(hasKey)
    \/ \E pos \in GamePositions, speed \in GameSpeeds :
          tick(pos, speed, MaxDriveInFlight)
    \/ \E i \in 1..MaxDriveInFlight, outcome \in Outcomes : respond(i, outcome)
    \/ advanceClock(MaxDriveNow)
    \/ resetButton

SpecGame == Init /\ [][NextGame]_vars

\* two positions 50 m apart
RacePositions == {[lat |-> n, lng |-> 0] : n \in {0, 50 * DistScale}}

\* the game with the vehicle driving and several fetches in flight, within
\* one clock step after one login
NextRace ==
    \/ \E hasKey \in BOOLEAN : ~started /\ initGameSystems(hasKey)
    \/ \E pos \in RacePositions, speed \in GameSpeeds : tick(pos, speed, MaxInFlight)
    \/ \E i \in 1..MaxInFlight, outcome \in Outcomes : respond(i, outcome)
    \/ resetButton

SpecRace == Init /\ [][NextRace]_vars

\* the game with the vehicle parked, for longer than the cache keeps an entry
NextParked ==
    \/ \E hasKey \in BOOLEAN : initGameSystems(hasKey)
    \/ \E pos \in ParkedPositions : tick(pos, 0, MaxInFlight)
    \/ \E i \in 1..MaxInFlight, outcome \in Outcomes : respond(i, outcome)
    \/ advanceClock(MaxNow)
    \/ resetButton

SpecParked == Init /\ [][NextParked]_vars

\* the parked game for a short time
NextLive ==
    \/ \E hasKey \in BOOLEAN : ~started /\ initGameSystems(hasKey)
    \/ \E pos \in ParkedPositions : tick(pos, 0, MaxInFlight)
    \/ \E i \in 1..MaxInFlight, outcome \in Outcomes : respond(i, outcome)
    \/ advanceClock(MaxDriveNow)
    \/ resetButton

\* the oldest fetch in flight is settled: the service answers, the
\* transport fails, or the 5 s timer aborts it
settleOldest == \E outcome \in Outcomes : respond(1, outcome)

\* the parked game in which no fetch stays in flight for ever
SpecLive == Init /\ [][NextLive]_vars /\ WF_vars(settleOldest)

\* ColorDetector.isOnRoad(undefined, lng), called on the detector of the
\* game by another caller than tick: lat.toFixed(5) of
\* RealRoadDetector.isOnRoad throws before its try block, the promise the
\* ColorDetector awaits rejects and its catch block runs
classifyUndefined(lng) ==
    LET r == [rejected |-> TRUE, value |-> FALSE, store |-> FALSE]
        c == colorDetectorResult(NaN, lng, r)
    IN  /\ started
        /\ fallbackMode' = c.fallbackMode
        /\ event' = [type |-> "direct", lat |-> NaN, lng |-> lng,
                     center |-> mapCenter, result |-> c.value,
                     detectorRejected |-> r.rejected]
        /\ UNCHANGED <<pointVars, apiStatus, started, apiKey, cache, lastCacheTime,
                       roadTolerance, now, vehicleState, inFlight, frames, quizVars,
                   physicsVars>>

\* the ColorDetector of the parked game after one login, with a second
\* caller, whose coordinate may be undefined
NextColorDetector ==
    \/ \E hasKey \in BOOLEAN : ~started /\ initGameSystems(hasKey)
    \/ \E pos \in ParkedPositions : tick(pos, 0, MaxInFlight)
    \/ \E i \in 1..MaxInFlight, outcome \in Outcomes : respond(i, outcome)
    \/ advanceClock(MaxNow)
    \/ resetButton
    \/ \E pos \in ParkedPositions : classifyUndefined(pos.lng)

SpecColorDetector == Init /\ [][NextColorDetector]_vars

\* ColorDetector.isOnRoad(lat, undefined), called like classifyUndefined:
\* it is lng.toFixed(5) that throws
classifyUndefinedLng(lat) ==
    LET r == [rejected |-> TRUE, value |-> FALSE, store |-> FALSE]
        c == colorDetectorResult(lat, NaN, r)
    IN  /\ started
        /\ fallbackMode' = c.fallbackMode
        /\ event' = [type |-> "direct", lat |-> lat, lng |-> NaN,
                     center |-> mapCenter, result |-> c.value,
                     detectorRejected |-> r.rejected]
        /\ UNCHANGED <<pointVars, apiStatus, started, apiKey, cache, lastCacheTime,
                       roadTolerance, now, vehicleState, inFlight, frames, quizVars,
                   physicsVars>>

\* coordinates on both sides of the map centre: the first and the last
\* point of each grid cell of fallbackRoadDetection, MaxCells cells each way
FallbackCoordinates ==
    {k * (10 * DegreeE5) + o : k \in (-MaxCells)..(MaxCells - 1),
                               o \in {0, 10 * DegreeE5 - 1}}

\* the fallback heuristic alone: the second caller, all over the grid
NextFallback ==
    \/ \E hasKey \in BOOLEAN : initGameSystems(hasKey)
    \/ \E lng \in FallbackCoordinates : classifyUndefined(lng)
    \/ \E lat \in FallbackCoordinates : classifyUndefinedLng(lat)

SpecFallback == Init /\ [][NextFallback]_vars

-----------------------------------------------------------------------------
(* The other public operations of the RealRoadDetector *)

cleared_keeps(m) == m

\* Map.clear()
cleared(m) == emptyMap

\* RealRoadDetector.clearCache()
clearCache ==
    /\ started
    /\ cache' = cleared(cache)
    /\ lastCacheTime' = cleared(lastCacheTime)
    /\ event' = [type |-> "clear", dropped |-> lastCacheTime,
                 size |-> Cardinality(DOMAIN cache')]
    /\ UNCHANGED <<pointVars, apiStatus, started, apiKey, fallbackMode,
                   roadTolerance, now, vehicleState, inFlight, frames, quizVars,
                   physicsVars>>

setRoadTolerance_clears(tolerance) ==
    /\ started
    /\ roadTolerance' = tolerance
    /\ cache' = emptyMap
    /\ lastCacheTime' = emptyMap
    /\ event' = [type |-> "setTolerance", tolerance |-> tolerance]
    /\ UNCHANGED <<pointVars, apiStatus, started, apiKey, fallbackMode, now,
                   vehicleState, inFlight, frames, quizVars, physicsVars>>

\* RealRoadDetector.setRoadTolerance(tolerance)
setRoadTolerance(tolerance) ==
    /\ started
    /\ roadTolerance' = tolerance
    /\ event' = [type |-> "setTolerance", tolerance |-> tolerance]
    /\ UNCHANGED <<pointVars, apiStatus, started, apiKey, fallbackMode, cache,
                   lastCacheTime, now, vehicleState, inFlight, frames, quizVars,
                   physicsVars>>

\* RealRoadDetector.getRoadTolerance()
getRoadTolerance ==
    /\ started
    /\ event' = [type |-> "getTolerance", result |-> roadTolerance]
    /\ UNCHANGED <<pointVars, apiStatus, started, apiKey, fallbackMode, cache,
                   lastCacheTime, roadTolerance, now, vehicleState, inFlight,
                   frames, quizVars, physicsVars>>

\* the tolerances set: the default, and one unit more
Tolerances == {ROAD_TOLERANCE, ROAD_TOLERANCE + 1}

\* the parked game, one fetch at a time, with a caller of clearCache and
\* setRoadTolerance
NextDetector ==
    \/ \E hasKey \in BOOLEAN : initGameSystems(hasKey)
    \/ \E pos \in ParkedPositions : tick(pos, 0, MaxDriveInFlight)
    \/ \E i \in 1..MaxDriveInFlight, outcome \in Outcomes : respond(i, outcome)
    \/ advanceClock(MaxNow)
    \/ clearCache
    \/ \E tolerance \in Tolerances : setRoadTolerance(tolerance)

SpecDetector == Init /\ [][NextDetector]_vars

\* a snapped point one unit past the default tolerance: on the road under
\* the raised tolerance only, so that a stored value tells the tolerance it
\* was computed under
ToleranceOutcomes ==
    {[kind |-> "snapped", distance |-> ROAD_TOLERANCE + 1]} \cup FailureOutcomes

\* the parked game, one fetch at a time, with a caller of setRoadTolerance
\* and getRoadTolerance
NextTolerance ==
    \/ \E hasKey \in BOOLEAN : ~started /\ initGameSystems(hasKey)
    \/ \E pos \in ParkedPositions : tick(pos, 0, MaxDriveInFlight)
    \/ \E i \in 1..MaxDriveInFlight, outcome \in ToleranceOutcomes :
          respond(i, outcome)
    \/ advanceClock(MaxNow)
    \/ clearCache
    \/ \E tolerance \in Tolerances : setRoadTolerance(tolerance)
    \/ getRoadTolerance

SpecTolerance == Init /\ [][NextTolerance]_vars

\* the keys of the keyboard pressed and released: one that accelerates,
\* one that brakes, one that turns
PhysicsKeys == {"w", "s", "a"}

\* what becomes of a remote query while the vehicle is driven: an answer
\* on the road, a non-2xx status
PhysicsOutcomes ==
    {[kind |-> "snapped", distance |-> ROAD_TOLERANCE],
     [kind |-> "non2xx", distance |-> 0]}

\* the game with the keyboard: tick runs the physics on the keys that are
\* down and hands the speed it computed to the classification callbacks
NextPhysics ==
    \/ \E hasKey \in BOOLEAN : ~started /\ initGameSystems(hasKey)
    \/ \E key \in PhysicsKeys : keydown(key)
    \/ \E key \in PhysicsKeys : keyup(key)
    \/ \E pos \in ParkedPositions :
          tick(pos, speedUnits(speedAfter(vehicleSpeed, keysPressed)),
               MaxDriveInFlight)
    \/ \E i \in 1..MaxDriveInFlight, outcome \in PhysicsOutcomes :
          respond(i, outcome)

SpecPhysics == Init /\ [][NextPhysics]_vars

\* what becomes of the fetch of checkMultiplePoints: a 2xx body whose
\* snappedPoints name a set of originalIndex values (entries without one
\* name none), a non-2xx status, an error thrown by fetch or json()
BatchResponses ==
    {[kind |-> "ok", indices |-> ix] : ix \in SUBSET (0..MaxBatch)}
        \cup {[kind |-> k, indices |-> {}] : k \in {"non2xx", "error"}}

\* no fetch was sent
noResponse == [kind |-> "none", indices |-> {}]

batchResults_marksAll(n, response) ==
    IF n = 0 THEN <<>>
    ELSE [i \in 1..n |-> IF response.kind = "ok" THEN "true" ELSE "false"]

\* the array checkMultiplePoints resolves to for n points: new
\* Array(n).fill(false), and results[originalIndex] = true for each index
\* named, which lengthens the array when the index is past its end and
\* leaves the slots between empty
batchResults(n, response) ==
    IF n = 0 THEN <<>>
    ELSE IF response.kind # "ok" THEN [i \in 1..n |-> "false"]
    ELSE LET last == CHOOSE m \in response.indices \cup {n - 1} :
                         \A x \in response.indices \cup {n - 1} : x <= m
         IN  [i \in 1..(last + 1) |->
                 IF (i - 1) \in response.indices THEN "true"
                 ELSE IF i <= n THEN "false"
                 ELSE "empty"]

\* RealRoadDetector.checkMultiplePoints(points) with n points, from the call
\* to the settling of its promise: it reads and writes no field but apiKey
checkMultiplePoints(n, response) ==
    /\ started
    /\ (n = 0) = (response = noResponse)
    /\ event' = [type |-> "batch", n |-> n, response |-> response,
                 results |-> batchResults(n, response), queried |-> n > 0]
    /\ UNCHANGED <<pointVars, apiStatus, started, apiKey, fallbackMode, cache,
                   lastCacheTime, roadTolerance, now, vehicleState, inFlight,
                   frames, quizVars,
                   physicsVars>>

\* a caller of checkMultiplePoints on the detector of the game
NextBatch ==
    \/ \E hasKey \in BOOLEAN : initGameSystems(hasKey)
    \/ \E n \in 0..MaxBatch, response \in BatchResponses \cup {noResponse} :
          checkMultiplePoints(n, response)

SpecBatch == Init /\ [][NextBatch]_vars

-----------------------------------------------------------------------------
(* The question system of index.ts *)

\* QUESTIONS.length
QuestionCount == 3

\* the fields and methods of a PointSystem
PointSystemMembers ==
    {"points", "isOnRoad", "lastPosition", "pointMultiplier", "consecutiveRoadTime",
     "totalDistanceOnRoad", "warningElement", "constructor", "createUI",
     "createWarningSystem", "update", "calculateDistance", "updateUI",
     "updateApiStatus", "getPoints", "getDistanceOnRoad", "reset",
     "checkAchievements"}

inPointSystem_all(name) == TRUE

\* name in pointSystem
inPointSystem(name) == name \in PointSystemMembers

\* askQuestion(), the callback of a question timer: the game is paused and
\* the next question is shown with fresh answer buttons
askQuestion ==
    /\ askTimers >= 1
    /\ askTimers' = askTimers - 1
    /\ isGamePaused' = TRUE
    /\ currentQuestionIndex' = (currentQuestionIndex + 1) % QuestionCount
    /\ overlay' = [display |-> "flex", buttons |-> "enabled", feedback |-> ""]
    /\ UNCHANGED <<pointVars, apiStatus, started, apiKey, fallbackMode, cache,
                   lastCacheTime, roadTolerance, now, vehicleState, inFlight,
                   frames, event, hideTimers, physicsVars>>

\* selectAnswer(isCorrect), the click on an answer button.  The button is
\* clicked where it is painted and enabled, and the browser runs the
\* pending frame callbacks before it paints.  pointSystem.addPoints(100) is
\* called when the PointSystem has such a member
selectAnswer(isCorrect) ==
    /\ overlay.display = "flex"
    /\ overlay.buttons = "enabled"
    /\ frames = 0
    /\ overlay' = [overlay EXCEPT !.buttons = "disabled",
                                  !.feedback = IF isCorrect THEN "CORRECT!"
                                                            ELSE "INCORRECT."]
    /\ hideTimers' = hideTimers + 1
    /\ IF isCorrect /\ started /\ inPointSystem("addPoints")
       THEN /\ points' = points + 100
            /\ UNCHANGED <<isOnRoad, lastPosition, pointMultiplier,
                           consecutiveRoadTime, totalDistanceOnRoad>>
            /\ call' = [op |-> "addPoints"]
            /\ pre' = Fields
       ELSE UNCHANGED pointVars
    /\ UNCHANGED <<apiStatus, started, apiKey, fallbackMode, cache, lastCacheTime,
                   roadTolerance, now, vehicleState, inFlight, frames, event,
                   isGamePaused, currentQuestionIndex, askTimers, physicsVars>>

\* hideQuestion(), the callback of a feedback timer: the overlay is hidden,
\* the game resumes, a frame is requested and the timer of the next
\* question is set
hideQuestion ==
    /\ hideTimers >= 1
    /\ hideTimers' = hideTimers - 1
    /\ overlay' = [overlay EXCEPT !.display = "none"]
    /\ isGamePaused' = FALSE
    /\ frames' = frames + 1
    /\ askTimers' = askTimers + 1
    /\ UNCHANGED <<pointVars, apiStatus, started, apiKey, fallbackMode, cache,
                   lastCacheTime, roadTolerance, now, vehicleState, inFlight,
                   event, currentQuestionIndex, physicsVars>>

\* the parked game with its quiz
NextQuiz ==
    \/ \E hasKey \in BOOLEAN : initGameSystems(hasKey)
    \/ \E pos \in ParkedPositions : tick(pos, 0, MaxDriveInFlight)
    \/ \E i \in 1..MaxDriveInFlight, outcome \in Outcomes : respond(i, outcome)
    \/ askQuestion
    \/ \E isCorrect \in BOOLEAN : selectAnswer(isCorrect)
    \/ hideQuestion

\* the quiz in which no feedback timer stays pending for ever: the timer of
\* hideQuestion fires FEEDBACK_DELAY after it was set
SpecQuiz == Init /\ [][NextQuiz]_vars /\ WF_vars(hideQuestion)

\* the game with the vehicle driving after one login, with its quiz
NextQuizDrive ==
    \/ \E hasKey \in BOOLEAN : ~started /\ initGameSystems(hasKey)
    \/ \E pos \in GamePositions, speed \in GameSpeeds :
          tick(pos, speed, MaxDriveInFlight)
    \/ \E i \in 1..MaxDriveInFlight, outcome \in Outcomes : respond(i, outcome)
    \/ askQuestion
    \/ \E isCorrect \in BOOLEAN : selectAnswer(isCorrect)
    \/ hideQuestion

SpecQuizDrive == Init /\ [][NextQuizDrive]_vars

-----------------------------------------------------------------------------
(* What the last call was, read from call and pre *)

Updated == call.op = "update"

\* the distance update() computed: pre.lastPosition to the call's position
Travelled == calculateDistance(pre.lastPosition[1], call.carPosition)

\* update() found a previous position and a distance above 0.0001 m
ScoringUpdate ==
    /\ Updated
    /\ pre.lastPosition # null
    /\ Travelled > MOVE_THRESHOLD

\* update() found a previous position and a distance of at most 0.0001 m
NoiseUpdate ==
    /\ Updated
    /\ pre.lastPosition # null
    /\ Travelled <= MOVE_THRESHOLD

\* update() found no previous position
BaselineUpdate == Updated /\ pre.lastPosition = null

ScoreUnchanged ==
    /\ points = pre.points
    /\ pointMultiplier = pre.pointMultiplier
    /\ consecutiveRoadTime = pre.consecutiveRoadTime
    /\ totalDistanceOnRoad = pre.totalDistanceOnRoad

CallRecorded ==
    /\ lastPosition = <<call.carPosition>>
    /\ isOnRoad = call.isOnRoad

-----------------------------------------------------------------------------
(* C1: in every reachable state of the PointSystem, points is an integer   *)
(* and points >= 0.                                                        *)
C1_PointsNonNegative == points \in Nat

\* an off-road update whose penalty exceeds the points held: clamped at 0
C1_Witness ==
    /\ ScoringUpdate
    /\ ~call.isOnRoad
    /\ pre.points > 0
    /\ pre.points < (Travelled * OFF_ROAD_PENALTY) \div DistScale
    /\ points = 0

(* C2: in every reachable state the multiplier lies in [1.0, 3.0].         *)
C2_MultiplierInRange ==
    /\ pointMultiplier >= 1 * MultScale
    /\ pointMultiplier <= 3 * MultScale

\* a streak completes while the multiplier is already 3.0
C2_Witness ==
    /\ ScoringUpdate
    /\ call.isOnRoad
    /\ pre.pointMultiplier = 3 * MultScale
    /\ pre.consecutiveRoadTime + call.deltaTime > MULTIPLIER_INCREASE_TIME
    /\ pointMultiplier = 3 * MultScale

(* C3, as claimed: any update call with onRoad = false, whatever the       *)
(* previous position and the distance moved, leaves the multiplier exactly *)
(* 1.0 and consecutiveRoadTime exactly 0.                                  *)
C3_Original ==
    (Updated /\ ~call.isOnRoad) =>
        (pointMultiplier = 1 * MultScale /\ consecutiveRoadTime = 0)

(* C3, amended: an update call with onRoad = false that finds a previous   *)
(* position more than 0.0001 m away leaves the multiplier exactly 1.0 and  *)
(* consecutiveRoadTime exactly 0; an off-road call that finds no previous  *)
(* position, or one at most 0.0001 m away, leaves both as they were.       *)
C3_OffRoadReset ==
    /\ (ScoringUpdate /\ ~call.isOnRoad) =>
           (pointMultiplier = 1 * MultScale /\ consecutiveRoadTime = 0)
    /\ ((NoiseUpdate \/ BaselineUpdate) /\ ~call.isOnRoad) =>
           /\ pointMultiplier = pre.pointMultiplier
           /\ consecutiveRoadTime = pre.consecutiveRoadTime

\* an off-road move ends a streak with a raised multiplier and time on the clock
C3_Witness ==
    /\ ScoringUpdate
    /\ ~call.isOnRoad
    /\ pre.pointMultiplier > 1 * MultScale
    /\ pre.consecutiveRoadTime > 0
    /\ pointMultiplier = 1 * MultScale
    /\ consecutiveRoadTime = 0

(* C4, as claimed: once the accumulated on-road deltaTime reaches >= 8.0 s *)
(* the multiplier has increased by 0.1 (capped at 3.0) and                 *)
(* consecutiveRoadTime is 0.                                               *)
C4_Original ==
    (/\ ScoringUpdate
     /\ call.isOnRoad
     /\ pre.consecutiveRoadTime + call.deltaTime >= 8 * TimeScale) =>
        /\ pointMultiplier = Min(pre.pointMultiplier + 1, 3 * MultScale)
        /\ consecutiveRoadTime = 0

(* C4, amended: consecutiveRoadTime sums the deltaTime of the on-road     *)
(* updates that find a previous position more than 0.0001 m away, since it *)
(* was last zeroed; in the call where the sum exceeds 8.0 s (strictly) the *)
(* multiplier increases by exactly 0.1, capped at 3.0, and the accumulator *)
(* is reset to 0; at 8.0 s or less the multiplier is unchanged and the     *)
(* accumulator keeps the sum.                                              *)
C4_StreakIncrease ==
    (ScoringUpdate /\ call.isOnRoad) =>
        IF pre.consecutiveRoadTime + call.deltaTime > 8 * TimeScale
        THEN /\ pointMultiplier = Min(pre.pointMultiplier + 1, 3 * MultScale)
             /\ consecutiveRoadTime = 0
        ELSE /\ pointMultiplier = pre.pointMultiplier
             /\ consecutiveRoadTime = pre.consecutiveRoadTime + call.deltaTime

\* 8 s accumulated over earlier calls, and one more call takes it past 8 s
C4_Witness ==
    /\ ScoringUpdate
    /\ call.isOnRoad
    /\ pre.consecutiveRoadTime = 8 * TimeScale
    /\ pointMultiplier = pre.pointMultiplier + 1
    /\ consecutiveRoadTime = 0

(* C5: for every update call with onRoad = true, points after the call >=  *)
(* points before the call.                                                 *)
C5_OnRoadNonDecreasing ==
    (Updated /\ call.isOnRoad) => points >= pre.points

\* an on-road update that earned points
C5_Witness ==
    /\ Updated
    /\ call.isOnRoad
    /\ points > pre.points

C7_OnRoadEarned ==
    /\ (ScoringUpdate /\ call.isOnRoad) =>
           /\ points = pre.points +
                  (Travelled * 5 * pre.pointMultiplier * Min(call.speed, 3))
                      \div (DistScale * MultScale * BonusScale)
           /\ totalDistanceOnRoad = pre.totalDistanceOnRoad + Travelled
    /\ (ScoringUpdate /\ call.isOnRoad /\ Travelled = 50 * DistScale
            /\ call.speed = BonusScale /\ pre.pointMultiplier = 1 * MultScale) =>
           points = pre.points + 250
    /\ pointsEarned(100 * DistScale, 1 * MultScale, BonusScale) = 500

\* the bonus is capped and the call itself raises the multiplier
C7_Witness ==
    /\ ScoringUpdate
    /\ call.isOnRoad
    /\ call.speed > MAX_SPEED_BONUS
    /\ pre.pointMultiplier > 1 * MultScale
    /\ pointMultiplier > pre.pointMultiplier
    /\ points > pre.points

(* C8: in any step where points strictly increases, the step is an update  *)
(* call whose onRoad argument is true.                                     *)
C8_AwardedOnlyOnRoad ==
    points > pre.points => (Updated /\ call.isOnRoad)

\* points were awarded on top of points already held
C8_Witness ==
    /\ Updated
    /\ points > pre.points
    /\ pre.points > 0
    /\ call.isOnRoad

(* C9: for every update call whose distance from lastPosition is at most   *)
(* 0.0001 m, points, multiplier, totalDistanceOnRoad and                   *)
(* consecutiveRoadTime are unchanged, while lastPosition and the isOnRoad  *)
(* flag are overwritten with the call's arguments.                         *)
C9_NoiseFrame ==
    NoiseUpdate => (ScoreUnchanged /\ CallRecorded)

\* exactly 0.0001 m, off-road, in the middle of a streak
C9_Witness ==
    /\ NoiseUpdate
    /\ Travelled = MOVE_THRESHOLD
    /\ ~call.isOnRoad
    /\ pre.isOnRoad
    /\ pre.points > 0
    /\ pre.pointMultiplier > 1 * MultScale
    /\ pre.consecutiveRoadTime > 0
    /\ lastPosition # pre.lastPosition

(* C10: the first update after construction, and the first update after    *)
(* any reset(), performs no scoring whatever its arguments: points,        *)
(* multiplier, consecutiveRoadTime and totalDistanceOnRoad are unchanged   *)
(* and only lastPosition and the on-road flag are recorded.                *)
C10_FirstUpdateIsBaseline ==
    (Updated /\ pre.op \in {"new", "reset"}) => (ScoreUnchanged /\ CallRecorded)

\* the first update after a reset, on-road and at speed
C10_Witness ==
    /\ Updated
    /\ pre.op = "reset"
    /\ call.isOnRoad
    /\ call.speed > 0
    /\ ~pre.isOnRoad
    /\ lastPosition = <<call.carPosition>>

(* C11: from any reachable state, reset() leaves points = 0, multiplier =   *)
(* 1.0, lastPosition absent, consecutiveRoadTime = 0 and                   *)
(* totalDistanceOnRoad = 0, the score state of a freshly constructed       *)
(* PointSystem; and a reset right after a reset changes no field.          *)
C11_ResetYieldsFreshScore ==
    (call.op = "reset") =>
        /\ points = 0
        /\ pointMultiplier = 1 * MultScale
        /\ lastPosition = null
        /\ consecutiveRoadTime = 0
        /\ totalDistanceOnRoad = 0
        /\ (pre.op = "reset") =>
               /\ ScoreUnchanged
               /\ lastPosition = pre.lastPosition
               /\ isOnRoad = pre.isOnRoad

\* a reset in the middle of a streak: every score field had left its start
C11_Witness ==
    /\ call.op = "reset"
    /\ pre.points > 0
    /\ pre.pointMultiplier > 1 * MultScale
    /\ pre.consecutiveRoadTime > 0
    /\ pre.totalDistanceOnRoad > 0
    /\ pre.lastPosition # null
    /\ points = 0

(* C12: an update call never decreases totalDistanceOnRoad, and changes it *)
(* only when it is called with onRoad = true; every off-road update leaves *)
(* it as it found it.  (Only reset lowers it.)                             *)
C12_DistanceMonotone ==
    Updated =>
        /\ totalDistanceOnRoad >= pre.totalDistanceOnRoad
        /\ (totalDistanceOnRoad # pre.totalDistanceOnRoad) => call.isOnRoad
        /\ (~call.isOnRoad) => totalDistanceOnRoad = pre.totalDistanceOnRoad

\* an off-road move of 50 m after some on-road distance: penalised, the
\* distance untouched
C12_Witness ==
    /\ ScoringUpdate
    /\ ~call.isOnRoad
    /\ pre.totalDistanceOnRoad > 0
    /\ Travelled > 1 * DistScale
    /\ totalDistanceOnRoad = pre.totalDistanceOnRoad

-----------------------------------------------------------------------------
(* What the last classification step was, read from event *)

\* a tick looked the vehicle's coordinate up in the cache
Looked == event.type \in {"hit", "issue"}

\* a fetch was settled and the callbacks of its tick ran
Responded == event.type = "response"

\* what isOnRoad of the RealRoadDetector makes of a 2xx answer
Answered == event.outcome.kind = "snapped" /\ event.outcome.distance <= roadTolerance

(* C13, as claimed: of two isOnRoad calls with the same rounded coordinate  *)
(* made within 30 s of each other, whatever the interleaving of calls and  *)
(* responses, at most one issues a remote query: so no call issues a query *)
(* while the query of an earlier call for that coordinate, at most 5 s     *)
(* old, is still in flight.                                                *)
C13_Original == (event.type = "issue") => ~event.found.sameKeyInFlight

(* C14: a call that finds a cache entry of age < 30,000 ms for its rounded *)
(* coordinate takes the cache path, and only such a call does; it returns  *)
(* exactly the stored boolean (which is what update() is then given),      *)
(* issues no remote query and leaves the cache and its timestamps as they  *)
(* were.                                                                   *)
C14_CacheHit ==
    /\ (Looked /\ event.found.age \in 0..(CACHE_TIMEOUT - 1)) => event.type = "hit"
    /\ (event.type = "hit") =>
           /\ event.found.age \in 0..(CACHE_TIMEOUT - 1)
           /\ event.result = event.found.stored
           /\ ~event.queried
           /\ event.cacheKept
           /\ Updated => call.isOnRoad = event.found.stored

\* a hit on an entry that stores true, one clock step before it expires
C14_Witness ==
    /\ event.type = "hit"
    /\ event.found.age = CACHE_TIMEOUT - 1
    /\ event.found.stored
    /\ Updated
    /\ call.isOnRoad

(* C15: a call that finds a cache entry of age >= 30,000 ms for its        *)
(* coordinate treats it as absent and issues a new remote query; the value *)
(* the call returns when the query is settled is computed from the answer  *)
(* (a snapped point within the tolerance, else false), never read from the *)
(* stale entry.                                                            *)
C15_CacheExpiry ==
    /\ (Looked /\ event.found.age >= CACHE_TIMEOUT) =>
           (event.type = "issue" /\ event.queried)
    /\ Responded => event.result = Answered

\* a query issued for an entry that stores true and is exactly 30,000 ms old
C15_Witness ==
    /\ event.type = "issue"
    /\ event.found.age = CACHE_TIMEOUT
    /\ event.found.stored
    /\ event.queried

(* C16, as claimed: when the remote query times out, the classification    *)
(* resolves false no later than the 5 s abort, the fallback-mode flag is   *)
(* true from then on, and the status tick pushes to the display after it   *)
(* is 'Fallback Mode'.                                                     *)
C16_Original ==
    (Responded /\ event.outcome.kind = "abort") =>
        /\ event.result = FALSE
        /\ event.waited <= requestTimeout
        /\ fallbackMode
        /\ Updated => apiStatus = "Fallback Mode"

(* C17, as claimed: when the Roads API request fails (a non-2xx status,    *)
(* the timeout, a transport error) the classification handed to tick is    *)
(* what the simulated fallback road detection gives for the queried        *)
(* coordinate.                                                             *)
C17_Original ==
    (Responded /\ event.outcome.kind \in {"non2xx", "abort", "error"}) =>
        event.result = event.simulated

(* C18: whatever the outcome of the remote query (2xx or non-2xx, abort,   *)
(* transport error, unparsable body), the promise of                       *)
(* RealRoadDetector.isOnRoad resolves, the promise of                      *)
(* ColorDetector.isOnRoad resolves to a boolean, tick's then-callback runs *)
(* and its catch-callback does not: the display never shows 'API Error'.   *)
C18_NoFailurePropagates ==
    /\ apiStatus # "API Error"
    /\ (Responded \/ event.type = "hit") =>
           /\ event.result \in BOOLEAN
           /\ ~event.detectorRejected
           /\ event.branch = "then"

\* a body that does not parse: update() is given false by the then-callback
C18_Witness ==
    /\ Responded
    /\ event.outcome.kind = "badjson"
    /\ event.branch = "then"
    /\ Updated
    /\ ~call.isOnRoad
    /\ apiStatus = "Real Roads API"

(* C19, as claimed: when no credential is configured the classifier is in  *)
(* fallback mode for the whole session: no remote query is ever in flight, *)
(* isInFallbackMode() is true, and after every tick whose classification   *)
(* completed the display shows 'Fallback Mode'.                            *)
C19_Original ==
    (started /\ apiKey = "fallback") =>
        /\ inFlight = <<>>
        /\ fallbackMode
        /\ ((Responded \/ event.type = "hit") /\ Updated) =>
               apiStatus = "Fallback Mode"

(* C20: once ColorDetector.fallbackMode is true it is true in every later  *)
(* state, whatever calls succeed afterwards.                               *)
C20_FallbackSticky == [][fallbackMode => fallbackMode']_vars

\* the flag is set, and a later query was answered with a road in tolerance
C20_Witness ==
    /\ fallbackMode
    /\ Responded
    /\ event.outcome.kind = "snapped"
    /\ event.result
    /\ Updated
    /\ apiStatus = "Fallback Mode"

(* C21: a 2xx answer with at least one snapped point makes isOnRoad return *)
(* true iff the distance from the queried point to the first snapped point *)
(* is <= the road tolerance in force (10 m unless setRoadTolerance changed *)
(* it; the boundary counts as on-road), and that boolean, true or false,   *)
(* is in the cache under the key of the call with the timestamp of the     *)
(* answer.                                                                 *)
C21_SnappedClassified ==
    (Responded /\ event.outcome.kind = "snapped") =>
        /\ event.result = (event.outcome.distance <= event.tolerance)
        /\ event.entry = <<event.result, 0>>

\* the tolerance was raised by one unit, and a point snapped exactly that far
\* away is on-road and cached as such
C21_Witness ==
    /\ Responded
    /\ event.outcome.kind = "snapped"
    /\ event.tolerance = ROAD_TOLERANCE + 1
    /\ event.outcome.distance = ROAD_TOLERANCE + 1
    /\ event.result
    /\ event.entry = <<TRUE, 0>>

(* C22: a 2xx answer with no snapped point is a negative result and no     *)
(* error: isOnRoad resolves false, false is in the cache under the key of  *)
(* the call with the timestamp of the answer, no promise rejects and the   *)
(* fallback-mode flag is not set.                                          *)
C22_EmptyIsNegative ==
    (Responded /\ event.outcome.kind = "empty") =>
        /\ event.result = FALSE
        /\ event.entry = <<FALSE, 0>>
        /\ ~event.detectorRejected
        /\ event.branch = "then"
        /\ event.flagKept
        /\ ~fallbackMode

\* an answer without snapped points replaces an entry that stored true
C22_Witness ==
    /\ Responded
    /\ event.outcome.kind = "empty"
    /\ event.staleStored
    /\ event.entry = <<FALSE, 0>>
    /\ cache[event.key] = FALSE

(* C25: right after clearCache the cache has no entry and no timestamp,    *)
(* and the next isOnRoad call for a coordinate whose entry was dropped,    *)
(* one cached less than 30 s before included, issues a remote query.       *)
C25_ClearCache ==
    /\ (event.type = "clear") =>
           /\ event.size = 0
           /\ cache = emptyMap
           /\ lastCacheTime = emptyMap
    /\ (Looked /\ event.found.clearedAge >= 0) =>
           /\ event.type = "issue"
           /\ event.queried
           /\ event.found.age = -1

\* a query for a coordinate whose entry was cached less than 30 s ago and
\* dropped by clearCache
C25_Witness ==
    /\ event.type = "issue"
    /\ event.found.clearedAge \in 0..(CACHE_TIMEOUT - 1)
    /\ event.queried

(* C23, as claimed: the fallback heuristic classifies a coordinate as      *)
(* on-road iff, with latGrid = floor((lat - center.lat) * 10000) and       *)
(* lngGrid = floor((lng - center.lng) * 10000) taken modulo 10, a grid     *)
(* coordinate is congruent to 0 or 5 (mod 10) or is even, on either side   *)
(* of the map centre.  (A coordinate that is undefined has no grid         *)
(* coordinate.)                                                            *)
C23_Original ==
    (event.type = "direct") =>
        LET grid(x, c) == ((x - c) \div (10 * DegreeE5)) % 10
            grids == (IF event.lat = NaN THEN {}
                      ELSE {grid(event.lat, event.center.lat)})
                       \cup
                     (IF event.lng = NaN THEN {}
                      ELSE {grid(event.lng, event.center.lng)})
        IN  event.result = (\E g \in grids : g \in {0, 5} \/ g % 2 = 0)

\* the first n results of a batch are true exactly at the indices named
BatchMarked ==
    \A i \in 1..event.n :
        event.results[i] =
            IF event.response.kind = "ok" /\ (i - 1) \in event.response.indices
            THEN "true" ELSE "false"

(* C24, as claimed: for every list of points and every service response,   *)
(* checkMultiplePoints returns a list of booleans of exactly the length of *)
(* the input, true exactly at the indices named by an originalIndex of the *)
(* response and false elsewhere; an empty input returns [] without a       *)
(* query, and a failed query returns all false.                            *)
C24_Original ==
    (event.type = "batch") =>
        /\ Len(event.results) = event.n
        /\ BatchMarked
        /\ (event.n = 0) => ~event.queried

(* C24, amended: for every list of points and every service response whose *)
(* originalIndex values are indices of the list, checkMultiplePoints       *)
(* returns a list of booleans of exactly the length of the input, true     *)
(* exactly at the indices named and false elsewhere; an empty input        *)
(* returns [] without a query, and a failed query returns all false.  An   *)
(* originalIndex past the end of the list lengthens the result to that     *)
(* index + 1, the first n entries still being marked as above.             *)
C24_BatchResults ==
    (event.type = "batch") =>
        /\ BatchMarked
        /\ (event.n = 0) => (event.results = <<>> /\ ~event.queried)
        /\ (event.n > 0 /\ event.response.kind # "ok") =>
               event.results = [i \in 1..event.n |-> "false"]
        /\ (\A x \in event.response.indices : x < event.n) =>
               Len(event.results) = event.n
        /\ \A x \in event.response.indices :
               (event.n > 0 /\ x >= event.n) => Len(event.results) > event.n

\* three points, the second and the third snapped
C24_Witness ==
    /\ event.type = "batch"
    /\ event.n = 3
    /\ event.response.kind = "ok"
    /\ event.response.indices = {1, 2}
    /\ event.results = <<"false", "true", "true">>

\* the vehicle's position, as update() is given it
VehiclePosition == [lat |-> vehicleState.lat, lng |-> vehicleState.lng]

(* C26: nothing discards the result of a fetch that was overtaken: when a  *)
(* fetch sent by an earlier tick is settled after one sent by a later tick *)
(* was, its result is passed to PointSystem.update like any other.  The    *)
(* witness is the interleaving the claim says exists.                      *)
C26_StaleResultApplied == (Responded /\ event.overtaken) => event.applied

\* the later fetch was answered off-road and applied; then the earlier one
\* is answered on-road and applied over it
C26_Witness ==
    /\ Responded
    /\ event.overtaken
    /\ event.applied
    /\ Updated
    /\ pre.op = "update"
    /\ ~pre.isOnRoad
    /\ event.result
    /\ isOnRoad

(* C27, as claimed: fetches sent before a reset are settled after it with  *)
(* no tick in between, and from the second such completion on their update *)
(* calls change points, the multiplier or totalDistanceOnRoad.             *)
C27_Original ==
    (Responded /\ event.sinceReset >= 2 /\ Updated) =>
        \/ points # 0
        \/ pointMultiplier # 1 * MultScale
        \/ totalDistanceOnRoad # 0

(* C27, amended: a reset does not cancel the fetches in flight: those sent *)
(* before it and settled after it, with no tick in between, each call      *)
(* update, which sets lastPosition to the vehicle's position and isOnRoad  *)
(* to the result.  The vehicle does not move without a tick, so the first  *)
(* such update finds no previous position and the later ones a distance of *)
(* 0: points, multiplier, consecutiveRoadTime and totalDistanceOnRoad stay *)
(* at their reset values however many complete.                            *)
C27_ResetDoesNotCancel ==
    (Responded /\ event.sinceReset >= 1 /\ Updated) =>
        /\ event.applied
        /\ lastPosition = <<VehiclePosition>>
        /\ isOnRoad = event.result
        /\ points = 0
        /\ pointMultiplier = 1 * MultScale
        /\ consecutiveRoadTime = 0
        /\ totalDistanceOnRoad = 0

\* the second completion after a reset, on-road like the first, at speed
C27_Witness ==
    /\ Responded
    /\ event.sinceReset = 2
    /\ Updated
    /\ call.isOnRoad
    /\ call.speed > 0
    /\ pre.isOnRoad
    /\ pre.lastPosition = <<VehiclePosition>>
    /\ points = 0

(* C28: the tick loop does not wait for the classification: the tick that *)
(* sends a fetch requests the next frame in the same step, so a frame is   *)
(* pending whenever the game runs; a fetch leaves the fetches in flight    *)
(* only by being settled, one at a time and with exactly one update call;  *)
(* and, every fetch being settled or aborted at last, every fetch sent is  *)
(* eventually followed by that update call.                                *)
C28_TickDoesNotWait ==
    /\ [](started => frames >= 1)
    /\ [][(Len(inFlight') < Len(inFlight)) =>
             /\ Len(inFlight') = Len(inFlight) - 1
             /\ event'.type = "response"
             /\ event'.applied]_vars
    /\ (\E j \in 1..Len(inFlight) : inFlight[j].tracked)
           ~> (Responded /\ event.tracked /\ event.applied)

\* a tick sent a second fetch while the first was in flight, and a frame
\* is pending
C28_Witness ==
    /\ event.type = "issue"
    /\ event.found.sameKeyInFlight
    /\ Len(inFlight) = 2
    /\ inFlight[1].tracked
    /\ frames >= 1

(* C29, as claimed: a road classification is asked for only on ticks where *)
(* the car is moving (speed > 0); a stationary car causes no               *)
(* classification call.                                                    *)
C29_Original == Looked => vehicleState.speed > 0

(* C30, as claimed: a failed Roads API request is retried, and the         *)
(* classification is given up (false handed to tick) only when             *)
(* MAX_RETRIES = 3 attempts have failed.                                   *)
C30_Original ==
    (Responded /\ event.outcome.kind \in FailureKinds) =>
        event.attempts = MAX_RETRIES

-----------------------------------------------------------------------------
(* Completions and the vehicle *)

\* this step settles a fetch: nothing else shortens the fetches in flight
Settles == Len(inFlight') < Len(inFlight)

(* C34: the update call of a completed classification is given the         *)
(* position and the speed the vehicle has when the classification          *)
(* completes, not those of the tick that sent the request; so of           *)
(* completions that run with no tick between them only the first can       *)
(* score: each later one finds distance 0 and changes no points,           *)
(* multiplier, accumulator or distance.                                    *)
C34_CompletionReadsVehicleNow ==
    [][Settles =>
          /\ call'.op = "update"
          /\ call'.carPosition = [lat |-> vehicleState'.lat, lng |-> vehicleState'.lng]
          /\ call'.speed = vehicleState'.speed
          /\ Responded =>
                 /\ points' = points
                 /\ pointMultiplier' = pointMultiplier
                 /\ consecutiveRoadTime' = consecutiveRoadTime
                 /\ totalDistanceOnRoad' = totalDistanceOnRoad]_vars

\* the fetch sent from one position was answered on-road with the vehicle
\* 50 m further: the update scored the 50 m, at the vehicle's position, and
\* another fetch is still to complete
C34_Witness ==
    /\ Responded
    /\ event.applied
    /\ event.key # cacheKey(vehicleState.lat, vehicleState.lng)
    /\ ScoringUpdate
    /\ call.isOnRoad
    /\ call.carPosition = VehiclePosition
    /\ points > pre.points
    /\ Len(inFlight) = 1

(* C35, as claimed: the cache and its timestamps change only in a          *)
(* successful single-point response or in clearCache, so a failed query    *)
(* (non-2xx, timeout, thrown error) leaves the cache as it was and the     *)
(* next call for the same coordinate after a failure issues a remote       *)
(* query again.                                                            *)
C35_Original ==
    [][/\ (cache' # cache \/ lastCacheTime' # lastCacheTime) =>
              \/ /\ Settles
                 /\ event'.type = "response"
                 /\ event'.outcome \in SuccessOutcomes
              \/ event'.type = "clear"
       /\ (/\ Responded
           /\ event.outcome.kind \in FailureKinds
           /\ event'.type \in {"hit", "issue"}
           /\ event'.found.key = event.key) => event'.type = "issue"]_vars

-----------------------------------------------------------------------------
(* The accumulator and the achievements of the PointSystem *)

(* C33: after every update call, with deltaTime >= 0, consecutiveRoadTime  *)
(* lies in [0, MULTIPLIER_INCREASE_TIME] (8 s); and the call that takes    *)
(* the accumulated time past the threshold resets it to 0 also when the    *)
(* multiplier is at 3.0 already and stays there.                           *)
C33_AccumulatorInRange ==
    /\ consecutiveRoadTime >= 0
    /\ consecutiveRoadTime <= MULTIPLIER_INCREASE_TIME
    /\ (/\ ScoringUpdate
        /\ call.isOnRoad
        /\ call.deltaTime >= 0
        /\ pre.pointMultiplier = MAX_MULTIPLIER
        /\ pre.consecutiveRoadTime + call.deltaTime > MULTIPLIER_INCREASE_TIME) =>
           (consecutiveRoadTime = 0 /\ pointMultiplier = pre.pointMultiplier)

\* the accumulator stood at the full 8 s with the multiplier at 3.0, and
\* the next on-road call reset it
C33_Witness ==
    /\ ScoringUpdate
    /\ call.isOnRoad
    /\ pre.pointMultiplier = MAX_MULTIPLIER
    /\ pre.consecutiveRoadTime = MULTIPLIER_INCREASE_TIME
    /\ consecutiveRoadTime = 0
    /\ pointMultiplier = MAX_MULTIPLIER

\* checkAchievements was the last call
Checked == call.op = "checkAchievements"

\* the labels of the array it returned
Labels == {call.result[i] : i \in 1..Len(call.result)}

(* C32: checkAchievements is a pure query.  It changes no field of the     *)
(* PointSystem; the array it returns holds the 1000-point label iff        *)
(* 1000 <= points < 2000 and the 5000-point label iff points >= 5000,      *)
(* never both and neither for points in [2000, 5000); and, whatever the    *)
(* points, the distance label iff totalDistanceOnRoad >= 1000 m.           *)
C32_AchievementsQuery ==
    Checked =>
        /\ ScoreUnchanged
        /\ lastPosition = pre.lastPosition
        /\ isOnRoad = pre.isOnRoad
        /\ (RoadWarrior \in Labels) = (points >= 1000 /\ points < 2000)
        /\ (MasterDriver \in Labels) = (points >= 5000)
        /\ ~(RoadWarrior \in Labels /\ MasterDriver \in Labels)
        /\ (points >= 2000 /\ points < 5000) =>
               (RoadWarrior \notin Labels /\ MasterDriver \notin Labels)
        /\ (DistanceMaster \in Labels) = (totalDistanceOnRoad >= 1000 * DistScale)
        /\ Len(call.result) = Cardinality(Labels)

\* exactly 5000 points after less than 1 km of road: the 5000-point label
\* alone
C32_Witness ==
    /\ Checked
    /\ points = 5000
    /\ totalDistanceOnRoad < 1000 * DistScale
    /\ call.result = <<MasterDriver>>

-----------------------------------------------------------------------------
(* The quiz *)

\* a question was asked, answered and hidden, and the game runs again
Resumed ==
    /\ ~isGamePaused
    /\ frames >= 1
    /\ askTimers >= 1

(* C31: while a question is active (isGamePaused is true and stays true)   *)
(* no step, a tick among them, moves the vehicle, sends a classification   *)
(* request, classifies from the cache or requests a frame: the tick of a   *)
(* pending frame returns and its frame is gone.  Once an answer is         *)
(* selected (a feedback timer is pending) the game resumes at last:        *)
(* isGamePaused is false, a frame is pending and the timer of the next     *)
(* question is set.                                                        *)
C31_QuizPauses ==
    /\ [][(isGamePaused /\ isGamePaused') =>
             /\ vehicleState' = vehicleState
             /\ Len(inFlight') <= Len(inFlight)
             /\ event'.type \in {"hit", "issue"} => event' = event
             /\ frames' <= frames]_vars
    /\ (hideTimers >= 1) ~> Resumed

\* the first question was answered and hidden: every frame pending when it
\* was asked has returned, and hideQuestion requested the one that is
\* pending now
C31_Witness ==
    /\ Resumed
    /\ currentQuestionIndex = 0
    /\ overlay.feedback # ""
    /\ overlay.display = "none"
    /\ frames = 1
    /\ hideTimers = 0

(* C37, as claimed: across any interleaving of initGameSystems,            *)
(* askQuestion, selectAnswer, hideQuestion and frame callbacks there is    *)
(* never more than one pending requestAnimationFrame(tick) callback.       *)
C37_Original == frames <= 1

-----------------------------------------------------------------------------
(* The tolerance of the RealRoadDetector *)

(* C36: setRoadTolerance changes the tolerance and nothing else: no cache  *)
(* entry, no timestamp, no query in flight.  A call that finds a valid     *)
(* entry returns the stored value as it is, whatever the tolerance is by   *)
(* then, and leaves the cache alone; an answer is classified with the      *)
(* tolerance in force when it arrives.  Only setRoadTolerance changes the  *)
(* tolerance, to the value it was given, and getRoadTolerance returns it.  *)
C36_ToleranceAffectsLaterAnswers ==
    [][/\ roadTolerance' # roadTolerance =>
              /\ event'.type = "setTolerance"
              /\ cache' = cache
              /\ lastCacheTime' = lastCacheTime
              /\ inFlight' = inFlight
       /\ event'.type = "setTolerance" => roadTolerance' = event'.tolerance
       /\ event'.type = "getTolerance" => event'.result = roadTolerance'
       /\ event'.type = "hit" =>
              /\ event'.result = event'.found.stored
              /\ event'.cacheKept
       /\ (Settles /\ event'.outcome.kind = "snapped") =>
              event'.result = (event'.outcome.distance <= roadTolerance)]_vars

\* an entry stored as on-road, which only the raised tolerance gives, was
\* returned with the default tolerance back in force
C36_Witness ==
    /\ event.type = "hit"
    /\ event.found.stored
    /\ event.result
    /\ event.found.age < CACHE_TIMEOUT
    /\ roadTolerance = ROAD_TOLERANCE
    /\ ~fallbackMode

-----------------------------------------------------------------------------
(* The physics of tick *)

(* C39: after any sequence of ticks and key events the speed of the        *)
(* vehicle lies in [0, MAX_SPEED] (25 m/s), and every speed passed to      *)
(* PointSystem.update is non-negative.                                     *)
C39_SpeedInRange ==
    /\ 0 <= vehicleSpeed
    /\ vehicleSpeed <= MAX_SPEED * SpeedScale
    /\ vehicleState.speed = speedUnits(vehicleSpeed)
    /\ Updated => call.speed >= 0

\* the accelerator was held until the vehicle reached MAX_SPEED, and the
\* callbacks of a tick passed that speed to update
C39_Witness ==
    /\ vehicleSpeed = MAX_SPEED * SpeedScale
    /\ "w" \in keysPressed
    /\ Updated
    /\ call.speed = speedUnits(MAX_SPEED * SpeedScale)
    /\ Responded

=============================================================================
